---- MODULE Spec2Model ----
(***************************************************************************)
(* Asset validation and material lifecycle of the dashboard application:   *)
(* the image validator (dashboard/services.py), the REST handlers          *)
(* (dashboard/views.py), the model methods and constraints                 *)
(* (dashboard/models.py) and the serializers (dashboard/serializers.py).   *)
(*                                                                         *)
(* The database runs in autocommit mode: no handler opens a transaction,   *)
(* so every ORM call of a handler is a step of its own and the steps of    *)
(* concurrent requests interleave.                                         *)
(***************************************************************************)
EXTENDS Integers, FiniteSets, Sequences, TLC

VARIABLES
    users,          \* rows of User (their usernames)
    projects,       \* Project rows: id -> [created_by, assigned_reviewers]
    materials,      \* Material rows: id -> record
    versions,       \* MaterialVersion rows: id -> record
    approvals,      \* Approval rows: <<material id, reviewer>> -> record
    audit,          \* AuditLog rows: a set of records with their ids
    platformSpecs,  \* PlatformSpec rows: <<platform, asset_key>> -> record
    notifications,  \* calls received by NotificationService
    nextId,         \* the id sequences of Material, MaterialVersion, AuditLog
    req,            \* per worker: the request being handled
    response,       \* the response sent last
    nreq            \* number of requests received so far

vars == <<users, projects, materials, versions, approvals, audit,
          platformSpecs, notifications, nextId, req, response, nreq>>

-----------------------------------------------------------------------------
(* Bounds of the model *)

MaxRequests == 2

-----------------------------------------------------------------------------
(* constants.py *)

Threads == {"t1", "t2"}

Users == {"admin", "rev1", "rev2", "cli1"}

Role(u) ==
    CASE u = "admin" -> "admin"
      [] u \in {"rev1", "rev2"} -> "reviewer"
      [] OTHER -> "client"

\* User.id
UserId(u) ==
    CASE u = "admin" -> 1 [] u = "rev1" -> 2 [] u = "rev2" -> 3 [] OTHER -> 4

is_admin(u) == Role(u) = "admin"
is_reviewer(u) == Role(u) = "reviewer"
is_client(u) == Role(u) = "client"

PENDING == "pending"
IN_REVIEW == "in_review"
APPROVED == "approved"
NEEDS_CORRECTION == "needs_correction"

MaterialStatusChoices == {PENDING, IN_REVIEW, APPROVED, NEEDS_CORRECTION}

\* None for the nullable integer columns (width, height) and for a missing
\* max_size_mb
None == -1

\* A key a specification dict does not hold
Absent == "absent"

MB == 1048576

DefaultMaxSizeMb == 10

\* The entries of PLATFORM_SPECS the model uploads to.  A spec is the dict
\* of the source: width, height (0: not given), formats, transparent_bg
\* (Absent when the key is missing), max_size_mb, margin_recommended_px.
PLATFORM_SPECS ==
    (<<"web_brand", "logo">> :>
        [width |-> 482, height |-> 108, formats |-> {"PNG"},
         transparent_bg |-> "true", max_size_mb |-> 10,
         margin_recommended_px |-> 0])
    @@
    (<<"web_brand", "placeholder">> :>
        [width |-> 220, height |-> 160, formats |-> {"PNG"},
         transparent_bg |-> Absent, max_size_mb |-> 10,
         margin_recommended_px |-> 0])
    @@
    (<<"samsung_tizen", "launcher_icon">> :>
        [width |-> 400, height |-> 400, formats |-> {"PNG"},
         transparent_bg |-> Absent, max_size_mb |-> 10,
         margin_recommended_px |-> 50])
    @@
    (<<"ios_tvos_app_store", "store_logo">> :>
        [width |-> 1920, height |-> 1080, formats |-> {"SVG"},
         transparent_bg |-> "true", max_size_mb |-> 10,
         margin_recommended_px |-> 0])

\* What _get_platform_specs returns when neither store holds the slot (None),
\* which `if not specs` treats like an empty dict
NoSpecs == [none |-> TRUE]

-----------------------------------------------------------------------------
(* services.py: ImageValidator *)

Rejected(reason) == [valid |-> FALSE, reason |-> reason]

\* A lookup that takes the row of the slot whether it is active or not
GetPlatformSpecsAnyRow(platform, asset_key) ==
    LET slot == <<platform, asset_key>> IN
    IF slot \in DOMAIN platformSpecs
    THEN platformSpecs[slot].specifications
    ELSE IF slot \in DOMAIN PLATFORM_SPECS THEN PLATFORM_SPECS[slot]
    ELSE NoSpecs

\* _get_platform_specs: the active row of the database, else the constants
GetPlatformSpecs(platform, asset_key) ==
    LET slot == <<platform, asset_key>> IN
    IF slot \in DOMAIN platformSpecs /\ platformSpecs[slot].is_active
    THEN platformSpecs[slot].specifications
    ELSE IF slot \in DOMAIN PLATFORM_SPECS THEN PLATFORM_SPECS[slot]
    ELSE NoSpecs

\* `if not specs`: None and the empty dict are both falsy
SpecsFalsy(specs) == specs = NoSpecs

\* specs.get('max_size_mb', 10) * 1024 * 1024
MaxSizeBytes(specs) ==
    (IF specs.max_size_mb = None THEN DefaultMaxSizeMb ELSE specs.max_size_mb) * MB

\* _get_mime_type: by the leading bytes of the content
GetMimeType(f) ==
    CASE f.magic = "PNG" -> "image/png"
      [] f.magic = "JPEG" -> "image/jpeg"
      [] f.magic \in {"SVG", "XML"} -> "image/svg+xml"
      [] OTHER -> "application/octet-stream"

\* _extract_format_from_mime
ExtractFormatFromMime(mime) ==
    CASE mime = "image/png" -> "PNG"
      [] mime = "image/jpeg" -> "JPG"
      [] mime = "image/jpg" -> "JPG"
      [] mime = "image/svg+xml" -> "SVG"
      [] OTHER -> "UNKNOWN"

\* specs.get('transparent_bg', False)
TransparentBg(specs) == specs.transparent_bg = "true"

\* _check_transparency: an alpha mode whose smallest alpha is below 255
CheckTransparency(f) ==
    IF f.mode \in {"RGBA", "LA"} THEN f.alpha_min < 255 ELSE FALSE

\* problematic_elements of _validate_svg
ProblematicElements == {"<script", "<iframe", "<object", "<embed"}

\* _validate_svg.  decode('utf-8', errors='ignore') never raises.  An element
\* is found when its token is a substring of the lower-cased text, which it
\* is when a tag of the document is written as the token.
ValidateSvg(f, specs, mime_type, file_size) ==
    LET has_transparency == f.svg_transparency_marker IN
    IF ~(f.svg_open /\ f.svg_close) THEN Rejected("InvalidSvg")
    ELSE IF ~f.svg_viewbox /\ ~f.svg_width THEN Rejected("MissingDimensions")
    ELSE IF TransparentBg(specs) /\ ~has_transparency
         THEN Rejected("TransparencyRequired")
    ELSE IF ~TransparentBg(specs) /\ has_transparency
         THEN Rejected("TransparencyForbidden")
    ELSE IF \E element \in ProblematicElements : element \in f.svg_tags
         THEN Rejected("UnsafeContent")
    ELSE [valid |-> TRUE, format |-> "SVG", mime_type |-> mime_type,
          file_size |-> file_size, width |-> None, height |-> None,
          has_transparency |-> has_transparency, warnings |-> {}]

\* _validate_raster_image without the check of the height
ValidateRasterImageWidthOnly(f, specs, mime_type, file_size) ==
    LET has_transparency == CheckTransparency(f) IN
    IF ~f.opens THEN Rejected("Corrupt")
    ELSE IF specs.width # 0 /\ f.width # specs.width
         THEN Rejected("DimensionMismatch")
    ELSE IF TransparentBg(specs) /\ ~has_transparency
         THEN Rejected("TransparencyRequired")
    ELSE IF ~TransparentBg(specs) /\ has_transparency
         THEN Rejected("TransparencyForbidden")
    ELSE IF ~f.verifies THEN Rejected("Corrupt")
    ELSE [valid |-> TRUE, format |-> ExtractFormatFromMime(mime_type),
          mime_type |-> mime_type, file_size |-> file_size,
          width |-> f.width, height |-> f.height,
          has_transparency |-> has_transparency,
          warnings |-> IF specs.margin_recommended_px # 0
                       THEN {<<specs.margin_recommended_px,
                               f.width - 2 * specs.margin_recommended_px,
                               f.height - 2 * specs.margin_recommended_px>>}
                       ELSE {}]

\* _validate_raster_image
ValidateRasterImage(f, specs, mime_type, file_size) ==
    LET has_transparency == CheckTransparency(f) IN
    IF ~f.opens THEN Rejected("Corrupt")
    ELSE IF specs.width # 0 /\ f.width # specs.width
         THEN Rejected("DimensionMismatch")
    ELSE IF specs.height # 0 /\ f.height # specs.height
         THEN Rejected("DimensionMismatch")
    ELSE IF TransparentBg(specs) /\ ~has_transparency
         THEN Rejected("TransparencyRequired")
    ELSE IF ~TransparentBg(specs) /\ has_transparency
         THEN Rejected("TransparencyForbidden")
    ELSE IF ~f.verifies THEN Rejected("Corrupt")
    ELSE [valid |-> TRUE, format |-> ExtractFormatFromMime(mime_type),
          mime_type |-> mime_type, file_size |-> file_size,
          width |-> f.width, height |-> f.height,
          has_transparency |-> has_transparency,
          warnings |-> IF specs.margin_recommended_px # 0
                       THEN {<<specs.margin_recommended_px,
                               f.width - 2 * specs.margin_recommended_px,
                               f.height - 2 * specs.margin_recommended_px>>}
                       ELSE {}]

\* validate_image with a size check that also refuses a file of exactly the
\* maximum size
ValidateImageBelowMax(f, platform, asset_key) ==
    LET specs == GetPlatformSpecs(platform, asset_key)
        mime_type == GetMimeType(f)
        file_format == ExtractFormatFromMime(mime_type)
        file_size == f.size
    IN
    IF SpecsFalsy(specs) THEN Rejected("SpecNotFound")
    ELSE IF file_format \notin specs.formats THEN Rejected("FormatNotAllowed")
    ELSE IF file_size >= MaxSizeBytes(specs)
         THEN IF specs.max_size_mb = None THEN Rejected("InternalError")
              ELSE Rejected("TooLarge")
    ELSE IF file_format = "SVG"
         THEN ValidateSvg(f, specs, mime_type, file_size)
    ELSE ValidateRasterImage(f, specs, mime_type, file_size)

\* validate_image
ValidateImage(f, platform, asset_key) ==
    LET specs == GetPlatformSpecs(platform, asset_key)
        mime_type == GetMimeType(f)
        file_format == ExtractFormatFromMime(mime_type)
        file_size == f.size
    IN
    IF SpecsFalsy(specs) THEN Rejected("SpecNotFound")
    ELSE IF file_format \notin specs.formats THEN Rejected("FormatNotAllowed")
    ELSE IF file_size > MaxSizeBytes(specs)
         THEN \* the message reads specs['max_size_mb']: a KeyError when the
              \* key is missing, re-raised as an internal error
              IF specs.max_size_mb = None THEN Rejected("InternalError")
              ELSE Rejected("TooLarge")
    ELSE IF file_format = "SVG"
         THEN ValidateSvg(f, specs, mime_type, file_size)
    ELSE ValidateRasterImage(f, specs, mime_type, file_size)

-----------------------------------------------------------------------------
(* Uploaded files.  A file is described by what the validator reads of it:  *)
(* its leading bytes (magic), byte length, what Pillow decodes (opens,      *)
(* size, mode, smallest alpha, verify) and, for SVG text, the substrings    *)
(* the validator searches for and the start tags of its elements as they    *)
(* are written, lower-cased (svg_tags).  utf8 tells whether the bytes are   *)
(* valid UTF-8; when they are not, the substrings and tags are those of the *)
(* text that decode('utf-8', errors='ignore') leaves.  content_type is the  *)
(* client-declared type and hash stands for the SHA-256 of the bytes.       *)

LogoA ==
    [name |-> "a.png", content_type |-> "image/png", magic |-> "PNG",
     size |-> 2048, hash |-> "sha-a", opens |-> TRUE, verifies |-> TRUE,
     width |-> 482, height |-> 108, mode |-> "RGBA", alpha_min |-> 0,
     svg_open |-> FALSE, svg_close |-> FALSE, svg_viewbox |-> FALSE,
     svg_width |-> FALSE, svg_transparency_marker |-> FALSE,
     svg_tags |-> {}, utf8 |-> TRUE]

LogoB == [LogoA EXCEPT !.name = "b.png", !.hash = "sha-b", !.size = 4096]

SvgA ==
    [LogoA EXCEPT !.name = "a.svg", !.content_type = "image/svg+xml",
                  !.magic = "SVG", !.hash = "sha-s", !.opens = FALSE,
                  !.verifies = FALSE, !.mode = "", !.svg_open = TRUE,
                  !.svg_close = TRUE, !.svg_viewbox = TRUE,
                  !.svg_transparency_marker = TRUE]

InvalidFiles ==
    { [LogoA EXCEPT !.alpha_min = 255],                 \* opaque
      [LogoA EXCEPT !.width = 480],                     \* narrow
      [LogoA EXCEPT !.opens = FALSE],                   \* truncated
      [LogoA EXCEPT !.magic = "OTHER"],                 \* not an image
      [LogoA EXCEPT !.content_type = "application/pdf"],
      [SvgA EXCEPT !.svg_tags = {"<script"}],           \* holds <script
      [SvgA EXCEPT !.svg_viewbox = FALSE],              \* no sizing hint
      [SvgA EXCEPT !.svg_close = FALSE] }               \* no </svg>

\* The slot a file is meant for, by its declared type
SlotFor(f) ==
    IF f.content_type = "image/svg+xml"
    THEN <<"ios_tvos_app_store", "store_logo">>
    ELSE <<"web_brand", "logo">>

Uploaders == {"cli1", "rev2"}

ProjectIds == {1}


-----------------------------------------------------------------------------
(* The database *)

Reviewers == {u \in Users : is_reviewer(u)}

IdleWorker == [pc |-> "idle"]

NoResponse ==
    [op |-> "", user |-> "", target |-> 0, arg |-> "", code |-> 0,
     detail |-> ""]

\* The users and the project exist (created on the admin site, which writes
\* no AuditLog); no material has been uploaded yet
InitEmpty ==
    /\ users = Users
    /\ projects = [p \in ProjectIds |->
                     [created_by |-> "admin",
                      assigned_reviewers |-> Reviewers]]
    /\ materials = <<>>
    /\ versions = <<>>
    /\ approvals = <<>>
    /\ audit = {}
    /\ platformSpecs = <<>>
    /\ notifications = {}
    /\ nextId = [material |-> 1, version |-> 1, audit |-> 1]
    /\ req = [t \in Threads |-> IdleWorker]
    /\ response = NoResponse
    /\ nreq = 0

\* Material 1 as cli1's upload of LogoA to web_brand/logo leaves it
UploadedMaterial ==
    [id |-> 1, project |-> 1, material_type |-> "image",
     platform |-> "web_brand", asset_key |-> "logo",
     file_name |-> LogoA.name, file_size |-> LogoA.size,
     file_hash |-> LogoA.hash, mime_type |-> "image/png",
     width |-> LogoA.width, height |-> LogoA.height,
     has_transparency |-> TRUE, uploaded_by |-> "cli1",
     status |-> PENDING, storage_url |-> "", comments |-> ""]

\* The state two requests later: cli1 has uploaded LogoA to web_brand/logo
\* (Material 1, an Approval per reviewer, the upload's audit row) and the
\* admin site has recorded version 1 of it, holding LogoB
InitUploaded ==
    /\ users = Users
    /\ projects = [p \in ProjectIds |->
                     [created_by |-> "admin",
                      assigned_reviewers |-> Reviewers]]
    /\ materials = (1 :> UploadedMaterial)
    /\ versions =
         (1 :> [material |-> 1, version_number |-> 1,
                file_name |-> LogoB.name, file_size |-> LogoB.size,
                file_hash |-> LogoB.hash, mime_type |-> "image/png",
                width |-> LogoB.width, height |-> LogoB.height,
                has_transparency |-> TRUE, storage_url |-> "",
                created_by |-> "admin"])
    /\ approvals =
         [a \in {<<1, r>> : r \in Reviewers} |->
            [material |-> 1, reviewer |-> a[2], status |-> PENDING,
             comments |-> "", approved_at |-> FALSE]]
    /\ audit = {[id |-> 1, action |-> "upload", actor |-> "cli1",
                 entity_type |-> "Material", entity_id |-> 1,
                 payload |-> [validation_status |-> "passed"]]}
    /\ platformSpecs = <<>>
    /\ notifications = {}
    /\ nextId = [material |-> 2, version |-> 2, audit |-> 2]
    /\ req = [t \in Threads |-> IdleWorker]
    /\ response = NoResponse
    /\ nreq = 0

Init == InitEmpty \/ InitUploaded

\* unique_together = ['project', 'platform', 'asset_key'] (Material.Meta)
SlotTaken(m) ==
    \E id \in DOMAIN materials :
        /\ id # m.id
        /\ materials[id].project = m.project
        /\ materials[id].platform = m.platform
        /\ materials[id].asset_key = m.asset_key

\* The constraints the database checks when a Material row is written: the
\* foreign keys project and uploaded_by, and the slot's uniqueness
MaterialWriteOk(m) ==
    /\ m.project \in DOMAIN projects
    /\ m.uploaded_by \in users
    /\ ~SlotTaken(m)

\* Model.save() / objects.create(): UPDATE the row with this id, INSERT it
\* when no row has it.  Every column is written from the instance.
WriteMaterial(m) ==
    [id \in DOMAIN materials \cup {m.id} |->
        IF id = m.id THEN m ELSE materials[id]]

\* AuditService.log_action: AuditLog.objects.create
AuditRow(action, actor, entity_type, entity_id, payload) ==
    [id |-> nextId.audit, action |-> action, actor |-> actor,
     entity_type |-> entity_type, entity_id |-> entity_id,
     payload |-> payload]

LogAction(action, actor, entity_type, entity_id, payload) ==
    /\ audit' = audit \cup
                  {AuditRow(action, actor, entity_type, entity_id, payload)}
    /\ nextId' = [nextId EXCEPT !.audit = @ + 1]

\* The foreign key AuditLog.actor
LogActionOk(actor) == actor \in users

\* The ids a request may name: the rows there are and, for a version, the
\* sequence's next id (no row has it)
MaterialIds == DOMAIN materials

VersionIds == DOMAIN versions \cup {nextId.version}

-----------------------------------------------------------------------------
(* Requests *)

Idle(t) == req[t] = IdleWorker

\* The first idle worker takes the next request
Receive(t) ==
    /\ Idle(t)
    /\ \A o \in Threads : Idle(o) => o = t \/ t = "t1"
    /\ nreq < MaxRequests
    /\ nreq' = nreq + 1

\* The handler goes on to its next step
Continue(t, r) ==
    /\ req' = [req EXCEPT ![t] = r]
    /\ UNCHANGED response

\* The handler returns its response (or raises: code 500)
Respond(t, r) ==
    /\ req' = [req EXCEPT ![t] = IdleWorker]
    /\ response' = r

\* A response: the operation, its caller, the row and argument it named, the
\* HTTP status and what the body says
Response(op, user, target, arg, code, detail) ==
    [op |-> op, user |-> user, target |-> target, arg |-> arg,
     code |-> code, detail |-> detail]

-----------------------------------------------------------------------------
(* views.py: MaterialViewSet.upload with MaterialService.create_material *)

\* MaterialUploadSerializer.validate_file and validate
UploadSerializerValid(project, platform, asset_key, f) ==
    /\ f.size <= 10 * MB
    /\ f.content_type \in {"image/png", "image/jpeg", "image/svg+xml"}
    /\ project \in DOMAIN projects
    /\ <<platform, asset_key>> \in DOMAIN PLATFORM_SPECS

\* The Material instance create_material builds from the validation result
NewMaterial(id, project, platform, asset_key, f, vr, uploaded_by) ==
    [id |-> id, project |-> project,
     material_type |-> IF vr.format \in {"PNG", "JPG", "SVG"}
                       THEN "image" ELSE "document",
     platform |-> platform, asset_key |-> asset_key,
     file_name |-> f.name, file_size |-> f.size, file_hash |-> f.hash,
     mime_type |-> vr.mime_type, width |-> vr.width, height |-> vr.height,
     has_transparency |-> vr.has_transparency,
     uploaded_by |-> uploaded_by, status |-> PENDING,
     storage_url |-> "", comments |-> ""]

\* An upload that records the rejection in the audit ledger before it answers
UploadBeginLogsRejection(t, u, project, platform, asset_key, f, comments) ==
    /\ Receive(t)
    /\ u \in users
    /\ UNCHANGED <<users, projects, materials, versions, approvals,
                   platformSpecs, notifications>>
    /\ IF ~UploadSerializerValid(project, platform, asset_key, f)
       THEN /\ UNCHANGED <<audit, nextId>>
            /\ Respond(t, Response("upload", u, 0, "", 400, "serializer"))
       ELSE LET vr == ValidateImage(f, platform, asset_key) IN
            IF ~vr.valid
            THEN /\ LogAction("upload", u, "Material", 0,
                              [validation_status |-> "failed"])
                 /\ Respond(t, Response("upload", u, 0, "", 400, vr.reason))
            ELSE /\ UNCHANGED <<audit, nextId>>
                 /\ Continue(t, [pc |-> "create", op |-> "upload",
                                  user |-> u, project |-> project,
                                  comments |-> comments,
                                  material |->
                                      NewMaterial(0, project, platform,
                                                  asset_key, f, vr, u)])

\* upload, up to the call of Material.objects.create: the serializer and
\* validate_image.  Nothing is written.
UploadBegin(t, u, project, platform, asset_key, f, comments) ==
    /\ Receive(t)
    /\ u \in users
    /\ UNCHANGED <<users, projects, materials, versions, approvals, audit,
                   platformSpecs, notifications, nextId>>
    /\ IF ~UploadSerializerValid(project, platform, asset_key, f)
       THEN Respond(t, Response("upload", u, 0, "", 400, "serializer"))
       ELSE LET vr == ValidateImage(f, platform, asset_key) IN
            IF ~vr.valid
            THEN Respond(t, Response("upload", u, 0, "", 400, vr.reason))
            ELSE Continue(t, [pc |-> "create", op |-> "upload", user |-> u,
                             project |-> project, comments |-> comments,
                             material |->
                                 NewMaterial(0, project, platform, asset_key,
                                             f, vr, u)])

\* Material.objects.create: an IntegrityError (the slot is taken, or a
\* foreign key is gone) is caught by upload's `except Exception`
UploadCreate(t) ==
    /\ req[t].pc = "create"
    /\ UNCHANGED <<users, projects, versions, approvals, audit,
                   platformSpecs, notifications, nreq>>
    /\ LET m == [req[t].material EXCEPT !.id = nextId.material] IN
       IF MaterialWriteOk(m)
       THEN /\ materials' = WriteMaterial(m)
            /\ nextId' = [nextId EXCEPT !.material = @ + 1]
            /\ Continue(t, [req[t] EXCEPT !.pc = "audit", !.material = m])
       ELSE /\ UNCHANGED <<materials, nextId>>
            /\ Respond(t, Response("upload", req[t].user, 0, "", 500, "IntegrityError"))

\* create_material's audit.log_action
UploadAudit(t) ==
    /\ req[t].pc = "audit"
    /\ req[t].op = "upload"
    /\ UNCHANGED <<users, projects, materials, versions, approvals,
                   platformSpecs, notifications, nreq>>
    /\ IF LogActionOk(req[t].user)
       THEN /\ LogAction("upload", req[t].user, "Material",
                         req[t].material.id,
                         [validation_status |-> "passed"])
            /\ Continue(t, [req[t] EXCEPT !.pc =
                              IF req[t].comments # "" THEN "comments"
                              ELSE "approvals"])
       ELSE /\ UNCHANGED <<audit, nextId>>
            /\ Respond(t, Response("upload", req[t].user, 0, "", 500, "IntegrityError"))

\* `if comments: material.comments = comments; material.save()`
UploadComments(t) ==
    /\ req[t].pc = "comments"
    /\ UNCHANGED <<users, projects, versions, approvals, audit,
                   platformSpecs, notifications, nextId, nreq>>
    /\ LET m == [req[t].material EXCEPT !.comments = req[t].comments] IN
       IF MaterialWriteOk(m)
       THEN /\ materials' = WriteMaterial(m)
            /\ Continue(t, [req[t] EXCEPT !.pc = "approvals", !.material = m])
       ELSE /\ UNCHANGED materials
            /\ Respond(t, Response("upload", req[t].user, 0, "", 500, "IntegrityError"))

\* The reviewers still to be given an Approval: read from the project when
\* the loop starts
ReviewersToDo(r) ==
    IF "todo" \in DOMAIN r THEN r.todo
    ELSE IF r.project \in DOMAIN projects
         THEN projects[r.project].assigned_reviewers ELSE {}

\* The queryset's first row
FirstOf(S) == IF "rev1" \in S THEN "rev1" ELSE CHOOSE x \in S : TRUE

\* The constraints on an Approval row: its foreign keys.  (material,
\* reviewer) is the row's key in the model, hence unique.
ApprovalWriteOk(mid, reviewer) ==
    /\ mid \in DOMAIN materials
    /\ reviewer \in users

\* An Approval created as already approved
NewApprovalApproved(mid, reviewer) ==
    [material |-> mid, reviewer |-> reviewer, status |-> APPROVED,
     comments |-> "", approved_at |-> FALSE]

\* Approval.objects.create(material, reviewer, status=PENDING)
NewApproval(mid, reviewer) ==
    [material |-> mid, reviewer |-> reviewer, status |-> PENDING,
     comments |-> "", approved_at |-> FALSE]

\* `for reviewer in project.assigned_reviewers.all(): Approval.objects.create`
\* one create per step, then the 201 response
UploadApprovals(t) ==
    /\ req[t].pc = "approvals"
    /\ UNCHANGED <<users, projects, materials, versions, audit,
                   platformSpecs, notifications, nextId, nreq>>
    /\ LET todo == ReviewersToDo(req[t])
           mid == req[t].material.id
       IN
       IF todo = {}
       THEN /\ UNCHANGED approvals
            /\ Respond(t, Response("upload", req[t].user, mid, "", 201, "created"))
       ELSE LET reviewer == FirstOf(todo) IN
            IF ApprovalWriteOk(mid, reviewer)
            THEN /\ approvals' = (<<mid, reviewer>> :> NewApproval(mid, reviewer))
                                 @@ approvals
                 /\ IF todo = {reviewer}
                    THEN Respond(t, Response("upload", req[t].user, mid, "", 201,
                                             "created"))
                    ELSE Continue(t, [pc |-> "approvals", op |-> "upload",
                                      user |-> req[t].user,
                                      project |-> req[t].project,
                                      comments |-> req[t].comments,
                                      material |-> req[t].material,
                                      todo |-> todo \ {reviewer}])
            ELSE /\ UNCHANGED approvals
                 /\ Respond(t, Response("upload", req[t].user, 0, "", 500,
                                        "IntegrityError"))

-----------------------------------------------------------------------------
(* views.py: MaterialViewSet.update_status with                             *)
(* MaterialService.update_material_status                                   *)

\* MaterialViewSet.get_queryset, as get_object uses it: a row outside the
\* caller's queryset is answered 404
MaterialVisible(u, mid) ==
    /\ mid \in DOMAIN materials
    /\ IF is_admin(u) THEN TRUE
       ELSE IF is_reviewer(u)
            THEN \/ u \in projects[materials[mid].project].assigned_reviewers
                 \/ materials[mid].uploaded_by = u
       ELSE materials[mid].uploaded_by = u

\* A policy that lets every reviewer approve and reject
CanChangeStatusAnyReviewer(material, new_status, user) ==
    IF is_admin(user) THEN TRUE
    ELSE IF is_reviewer(user)
            /\ new_status \in {APPROVED, NEEDS_CORRECTION}
         THEN TRUE
    ELSE IF is_client(user)
         THEN new_status = PENDING /\ material.uploaded_by = user
    ELSE FALSE

\* MaterialViewSet._can_change_status
CanChangeStatus(material, new_status, user) ==
    IF is_admin(user) THEN TRUE
    ELSE IF is_reviewer(user)
            /\ new_status \in {APPROVED, NEEDS_CORRECTION}
         THEN /\ material.project \in DOMAIN projects
              /\ user \in projects[material.project].assigned_reviewers
    ELSE IF is_client(user)
         THEN new_status = PENDING /\ material.uploaded_by = user
    ELSE FALSE

\* An update_status without the permission check
UpdateStatusBeginUnchecked(t, u, mid, new_status, comments) ==
    /\ Receive(t)
    /\ u \in users
    /\ UNCHANGED <<users, projects, materials, versions, approvals, audit,
                   platformSpecs, notifications, nextId>>
    /\ IF ~MaterialVisible(u, mid)
       THEN Respond(t, Response("update_status", u, mid, new_status, 404,
                                "not_found"))
       ELSE Continue(t, [pc |-> "save", op |-> "update_status", user |-> u,
                         old_status |-> materials[mid].status,
                         new_status |-> new_status, comments |-> comments,
                         material |->
                            [materials[mid] EXCEPT
                               !.status = new_status,
                               !.comments = IF comments # "" THEN comments
                                            ELSE @]])

\* update_status up to material.save(): get_object, the serializer, the
\* permission check, and the instance update_material_status will save
UpdateStatusBegin(t, u, mid, new_status, comments) ==
    /\ Receive(t)
    /\ u \in users
    /\ UNCHANGED <<users, projects, materials, versions, approvals, audit,
                   platformSpecs, notifications, nextId>>
    /\ IF ~MaterialVisible(u, mid)
       THEN Respond(t, Response("update_status", u, mid, new_status, 404,
                                "not_found"))
       ELSE IF ~CanChangeStatus(materials[mid], new_status, u)
       THEN Respond(t, Response("update_status", u, mid, new_status, 403,
                                "forbidden"))
       ELSE Continue(t, [pc |-> "save", op |-> "update_status", user |-> u,
                         old_status |-> materials[mid].status,
                         new_status |-> new_status, comments |-> comments,
                         material |->
                            [materials[mid] EXCEPT
                               !.status = new_status,
                               !.comments = IF comments # "" THEN comments
                                            ELSE @]])

\* material.save() of a handler that loaded the row earlier
SaveStep(t, op, next_pc) ==
    /\ req[t].pc = "save"
    /\ req[t].op = op
    /\ UNCHANGED <<users, projects, versions, approvals, audit,
                   platformSpecs, notifications, nextId, nreq>>
    /\ IF MaterialWriteOk(req[t].material)
       THEN /\ materials' = WriteMaterial(req[t].material)
            /\ Continue(t, [req[t] EXCEPT !.pc = next_pc])
       ELSE /\ UNCHANGED materials
            /\ Respond(t, Response(op, req[t].user, req[t].material.id, "",
                                   500, "IntegrityError"))

UpdateStatusSave(t) == SaveStep(t, "update_status", "audit")

\* update_material_status's audit.log_action
UpdateStatusAudit(t) ==
    /\ req[t].pc = "audit"
    /\ req[t].op = "update_status"
    /\ UNCHANGED <<users, projects, materials, versions, approvals,
                   platformSpecs, notifications, nreq>>
    /\ IF LogActionOk(req[t].user)
       THEN /\ LogAction("update", req[t].user, "Material",
                         req[t].material.id,
                         [old_status |-> req[t].old_status,
                          new_status |-> req[t].new_status,
                          comments |-> req[t].comments])
            /\ Continue(t, [req[t] EXCEPT !.pc = "notify"])
       ELSE /\ UNCHANGED <<audit, nextId>>
            /\ Respond(t, Response("update_status", req[t].user,
                                   req[t].material.id, req[t].new_status,
                                   500, "IntegrityError"))

\* notifications.send_material_status_change, then the 200 response
UpdateStatusNotify(t) ==
    /\ req[t].pc = "notify"
    /\ UNCHANGED <<users, projects, materials, versions, approvals, audit,
                   platformSpecs, nextId, nreq>>
    /\ notifications' = notifications \cup
                          {[material |-> req[t].material.id,
                            old_status |-> req[t].old_status,
                            new_status |-> req[t].new_status,
                            user |-> req[t].user]}
    /\ Respond(t, Response("update_status", req[t].user, req[t].material.id,
                           req[t].new_status, 200, "ok"))

\* notifications.send_material_status_change raises: update_material_status
\* and update_status call it without a try, so the exception reaches the
\* caller as a 500 after the save and the audit row were committed
UpdateStatusNotifyRaises(t) ==
    /\ req[t].pc = "notify"
    /\ UNCHANGED <<users, projects, materials, versions, approvals, audit,
                   platformSpecs, notifications, nextId, nreq>>
    /\ Respond(t, Response("update_status", req[t].user, req[t].material.id,
                           req[t].new_status, 500, "NotifierError"))

\* _can_change_status called on its own: the answer is 200 when it returns
\* True and 403 when it returns False
CheckCanChangeStatus(u, mid, new_status) ==
    /\ u \in users
    /\ mid \in DOMAIN materials
    /\ response' = Response("can_change_status", u, mid, new_status,
                            IF CanChangeStatus(materials[mid], new_status, u)
                            THEN 200 ELSE 403, "")
    /\ UNCHANGED <<users, projects, materials, versions, approvals, audit,
                   platformSpecs, notifications, nextId, req, nreq>>

-----------------------------------------------------------------------------
(* views.py: MaterialViewSet.rollback *)

\* A lookup of the version by its id alone
VersionOfAnyMaterial(mid, version_id) == version_id \in DOMAIN versions

\* MaterialRollbackSerializer.validate_version_id, and the handler's own
\* MaterialVersion.objects.get(id=version_id, material=material)
VersionOf(mid, version_id) ==
    /\ version_id \in DOMAIN versions
    /\ versions[version_id].material = mid

\* A rollback that leaves the status as it is
RollbackBeginKeepsStatus(t, u, mid, version_id) ==
    /\ Receive(t)
    /\ u \in users
    /\ UNCHANGED <<users, projects, materials, versions, approvals, audit,
                   platformSpecs, notifications, nextId>>
    /\ IF ~MaterialVisible(u, mid)
       THEN Respond(t, Response("rollback", u, mid, ToString(version_id), 404,
                                "not_found"))
       ELSE IF ~VersionOf(mid, version_id)
       THEN Respond(t, Response("rollback", u, mid, ToString(version_id), 400,
                                "version_not_found"))
       ELSE LET version == versions[version_id] IN
            Continue(t, [pc |-> "save", op |-> "rollback", user |-> u,
                         version_id |-> version_id,
                         version_number |-> version.version_number,
                         material |->
                            [materials[mid] EXCEPT
                               !.file_name = version.file_name,
                               !.file_size = version.file_size,
                               !.file_hash = version.file_hash,
                               !.mime_type = version.mime_type,
                               !.width = version.width,
                               !.height = version.height,
                               !.has_transparency = version.has_transparency,
                               !.storage_url = version.storage_url]])

\* rollback up to material.save()
RollbackBegin(t, u, mid, version_id) ==
    /\ Receive(t)
    /\ u \in users
    /\ UNCHANGED <<users, projects, materials, versions, approvals, audit,
                   platformSpecs, notifications, nextId>>
    /\ IF ~MaterialVisible(u, mid)
       THEN Respond(t, Response("rollback", u, mid, ToString(version_id), 404,
                                "not_found"))
       ELSE IF ~VersionOf(mid, version_id)
       THEN Respond(t, Response("rollback", u, mid, ToString(version_id), 400,
                                "version_not_found"))
       ELSE LET version == versions[version_id] IN
            Continue(t, [pc |-> "save", op |-> "rollback", user |-> u,
                         version_id |-> version_id,
                         version_number |-> version.version_number,
                         material |->
                            [materials[mid] EXCEPT
                               !.file_name = version.file_name,
                               !.file_size = version.file_size,
                               !.file_hash = version.file_hash,
                               !.mime_type = version.mime_type,
                               !.width = version.width,
                               !.height = version.height,
                               !.has_transparency = version.has_transparency,
                               !.storage_url = version.storage_url,
                               !.status = PENDING]])

RollbackSave(t) == SaveStep(t, "rollback", "audit")

\* A rollback whose audit row does not carry the version number
RollbackAuditNoNumber(t) ==
    /\ req[t].pc = "audit"
    /\ req[t].op = "rollback"
    /\ UNCHANGED <<users, projects, materials, versions, approvals,
                   platformSpecs, notifications, nreq>>
    /\ LogAction("update", req[t].user, "Material", req[t].material.id,
                 [action |-> "rollback", version_id |-> req[t].version_id,
                  version_number |-> 0])
    /\ Respond(t, Response("rollback", req[t].user, req[t].material.id, "",
                           200, "ok"))

\* rollback's AuditService.log_action, then the 200 response
RollbackAudit(t) ==
    /\ req[t].pc = "audit"
    /\ req[t].op = "rollback"
    /\ UNCHANGED <<users, projects, materials, versions, approvals,
                   platformSpecs, notifications, nreq>>
    /\ IF LogActionOk(req[t].user)
       THEN /\ LogAction("update", req[t].user, "Material",
                         req[t].material.id,
                         [action |-> "rollback",
                          version_id |-> req[t].version_id,
                          version_number |-> req[t].version_number])
            /\ Respond(t, Response("rollback", req[t].user,
                                   req[t].material.id, "", 200, "ok"))
       ELSE /\ UNCHANGED <<audit, nextId>>
            /\ Respond(t, Response("rollback", req[t].user,
                                   req[t].material.id, "", 500,
                                   "IntegrityError"))

-----------------------------------------------------------------------------
(* views.py: ApprovalViewSet.approve / reject with models.py:               *)
(* Approval.approve / Approval.reject                                       *)

\* ApprovalViewSet.get_queryset, as get_object uses it
ApprovalVisible(u, key) ==
    /\ key \in DOMAIN approvals
    /\ IF is_admin(u) THEN TRUE
       ELSE IF is_reviewer(u) THEN approvals[key].reviewer = u
       ELSE /\ key[1] \in DOMAIN materials
            /\ materials[key[1]].uploaded_by = u

\* Verdicts that all approve
OutcomeApproved(kind) == APPROVED

\* The status Approval.approve / Approval.reject sets
Outcome(kind) == IF kind = "approve" THEN APPROVED ELSE NEEDS_CORRECTION

\* approve / reject up to the approval's save(): get_object and the
\* permission check
ResolveBegin(t, u, key, kind, comments) ==
    /\ Receive(t)
    /\ u \in users
    /\ UNCHANGED <<users, projects, materials, versions, approvals, audit,
                   platformSpecs, notifications, nextId>>
    /\ IF ~ApprovalVisible(u, key)
       THEN Respond(t, Response(kind, u, key[1], key[2], 404, "not_found"))
       ELSE IF approvals[key].reviewer # u /\ ~is_admin(u)
       THEN Respond(t, Response(kind, u, key[1], key[2], 403, "forbidden"))
       ELSE Continue(t, [pc |-> "approval_save", op |-> kind, user |-> u,
                         approval |->
                            [approvals[key] EXCEPT
                               !.status = Outcome(kind),
                               !.comments = comments,
                               !.approved_at = IF kind = "approve" THEN TRUE
                                               ELSE @]])

\* Approval.approve / reject: self.save()
ResolveApprovalSave(t) ==
    /\ req[t].pc = "approval_save"
    /\ UNCHANGED <<users, projects, materials, versions, audit,
                   platformSpecs, notifications, nextId, nreq>>
    /\ LET a == req[t].approval
           key == <<a.material, a.reviewer>>
       IN
       IF ApprovalWriteOk(a.material, a.reviewer)
       THEN /\ approvals' = (key :> a) @@ approvals
            /\ Continue(t, [req[t] EXCEPT !.pc = "material_load"])
       ELSE /\ UNCHANGED approvals
            /\ Respond(t, Response(req[t].op, req[t].user, a.material,
                                   a.reviewer, 500, "IntegrityError"))

\* Approval.approve / reject: `self.material` fetches the Material row, and
\* the status is set on that instance
ResolveMaterialLoad(t) ==
    /\ req[t].pc = "material_load"
    /\ UNCHANGED <<users, projects, materials, versions, approvals, audit,
                   platformSpecs, notifications, nextId, nreq>>
    /\ LET a == req[t].approval IN
       IF a.material \in DOMAIN materials
       THEN Continue(t, [pc |-> "material_save", op |-> req[t].op,
                         user |-> req[t].user, approval |-> a,
                         material |-> [materials[a.material] EXCEPT
                                          !.status = Outcome(req[t].op)]])
       ELSE Respond(t, Response(req[t].op, req[t].user, a.material,
                                a.reviewer, 500, "DoesNotExist"))

\* Approval.approve / reject: self.material.save(), then the 200 response
ResolveMaterialSave(t) ==
    /\ req[t].pc = "material_save"
    /\ UNCHANGED <<users, projects, versions, approvals, audit,
                   platformSpecs, notifications, nextId, nreq>>
    /\ LET a == req[t].approval IN
       IF MaterialWriteOk(req[t].material)
       THEN /\ materials' = WriteMaterial(req[t].material)
            /\ Respond(t, Response(req[t].op, req[t].user, a.material,
                                   a.reviewer, 200, "ok"))
       ELSE /\ UNCHANGED materials
            /\ Respond(t, Response(req[t].op, req[t].user, a.material,
                                   a.reviewer, 500, "IntegrityError"))

-----------------------------------------------------------------------------
(* views.py: AuthViewSet *)

\* AuthViewSet.login: the audit row of a login
Login(u) ==
    /\ nreq < MaxRequests
    /\ nreq' = nreq + 1
    /\ u \in users
    /\ LogAction("login", u, "User", UserId(u), [none |-> TRUE])
    /\ response' = Response("login", u, UserId(u), "", 200, "ok")
    /\ UNCHANGED <<users, projects, materials, versions, approvals,
                   platformSpecs, notifications, req>>

Restrict(f, S) == [x \in S |-> f[x]]

\* AuthViewSet (a ModelViewSet open to AllowAny): DELETE of a user.  The
\* on_delete=CASCADE foreign keys delete the user's projects, materials,
\* versions, approvals and audit rows with it.
DeleteUser(u) ==
    /\ nreq < MaxRequests
    /\ nreq' = nreq + 1
    /\ u \in users
    /\ users' = users \ {u}
    /\ projects' =
         [p \in {q \in DOMAIN projects : projects[q].created_by # u} |->
            [projects[p] EXCEPT !.assigned_reviewers = @ \ {u}]]
    /\ materials' =
         Restrict(materials,
                  {m \in DOMAIN materials :
                      /\ materials[m].project \in DOMAIN projects'
                      /\ materials[m].uploaded_by # u})
    /\ versions' =
         Restrict(versions,
                  {v \in DOMAIN versions :
                      /\ versions[v].material \in DOMAIN materials'
                      /\ versions[v].created_by # u})
    /\ approvals' =
         Restrict(approvals,
                  {a \in DOMAIN approvals :
                      /\ a[1] \in DOMAIN materials'
                      /\ a[2] # u})
    /\ audit' = {a \in audit : a.actor # u}
    /\ response' = Response("delete_user", "", UserId(u), "", 204, "ok")
    /\ UNCHANGED <<platformSpecs, notifications, nextId, req>>

-----------------------------------------------------------------------------
(* views.py: ProjectViewSet; serializers.py: ProjectSerializer.update *)

\* ProjectViewSet.get_queryset
ProjectVisible(u, p) ==
    /\ p \in DOMAIN projects
    /\ IF is_admin(u) THEN TRUE
       ELSE IF is_reviewer(u)
            THEN u \in projects[p].assigned_reviewers
                 \/ projects[p].created_by = u
       ELSE projects[p].created_by = u

\* PUT/PATCH of a project with reviewer_ids: assigned_reviewers.set(the
\* users among them whose role is reviewer)
ProjectUpdate(u, p, reviewer_ids) ==
    /\ nreq < MaxRequests
    /\ nreq' = nreq + 1
    /\ u \in users
    /\ ProjectVisible(u, p)
    /\ projects' = [projects EXCEPT ![p].assigned_reviewers =
                       {r \in reviewer_ids : r \in users /\ is_reviewer(r)}]
    /\ response' = Response("project_update", u, p, "", 200, "ok")
    /\ UNCHANGED <<users, materials, versions, approvals, audit,
                   platformSpecs, notifications, nextId, req>>

-----------------------------------------------------------------------------
(* admin.py: MaterialVersionAdmin *)

MaxVersionNumber == 2

\* The admin site's add form of MaterialVersion, the one place that creates
\* versions: any number the unique_together (material, version_number)
\* allows
AdminAddVersion(mid, number, f) ==
    /\ nreq < MaxRequests
    /\ nreq' = nreq + 1
    /\ "admin" \in users
    /\ mid \in DOMAIN materials
    /\ \A v \in DOMAIN versions :
          ~(versions[v].material = mid /\ versions[v].version_number = number)
    /\ versions' =
         (nextId.version :>
            [material |-> mid, version_number |-> number,
             file_name |-> f.name, file_size |-> f.size,
             file_hash |-> f.hash, mime_type |-> GetMimeType(f),
             width |-> f.width, height |-> f.height,
             has_transparency |-> CheckTransparency(f),
             storage_url |-> "", created_by |-> "admin"])
         @@ versions
    /\ nextId' = [nextId EXCEPT !.version = @ + 1]
    /\ response' = Response("admin_add_version", "admin", mid, "", 200, "ok")
    /\ UNCHANGED <<users, projects, materials, approvals, audit,
                   platformSpecs, notifications, req>>

-----------------------------------------------------------------------------

\* The uploads of valid files: who sends which file to which slot, with
\* which comments
ValidUploads ==
    { <<u, SlotFor(fc[1]), fc[1], fc[2]>> :
         u \in Uploaders,
         fc \in { <<LogoA, "">>, <<LogoB, "fix">>, <<SvgA, "">> } }

\* The status changes requested: the target status and the comments
StatusChanges ==
    { <<PENDING, "">>, <<IN_REVIEW, "">>, <<APPROVED, "">>,
      <<NEEDS_CORRECTION, "fix">> }

\* The verdicts of reviewers: approve or reject, and the comments
Verdicts == { <<"approve", "">>, <<"reject", "fix">> }

\* The requests for submissions
Submit ==
    \/ \E t \in Threads, p \in ProjectIds, up \in ValidUploads :
           UploadBegin(t, up[1], p, up[2][1], up[2][2], up[3], up[4])
    \/ \E t \in Threads, p \in ProjectIds, f \in InvalidFiles :
           UploadBegin(t, "cli1", p, SlotFor(f)[1], SlotFor(f)[2], f, "")
    \/ \E t \in Threads : UploadCreate(t)
    \/ \E t \in Threads : UploadAudit(t)
    \/ \E t \in Threads : UploadComments(t)
    \/ \E t \in Threads : UploadApprovals(t)

\* The requests for rollbacks
Rollbacks ==
    \/ \E t \in Threads, u \in Users, mid \in MaterialIds,
          v \in VersionIds :
           RollbackBegin(t, u, mid, v)
    \/ \E t \in Threads : RollbackSave(t)
    \/ \E t \in Threads : RollbackAudit(t)

\* The requests of the review: status changes, rollbacks and verdicts
Review ==
    \/ \E t \in Threads, u \in Users, mid \in MaterialIds,
          sc \in StatusChanges :
           UpdateStatusBegin(t, u, mid, sc[1], sc[2])
    \/ \E t \in Threads : UpdateStatusSave(t)
    \/ \E t \in Threads : UpdateStatusAudit(t)
    \/ \E t \in Threads : UpdateStatusNotify(t)
    \/ Rollbacks
    \/ \E t \in Threads, u \in Users, key \in DOMAIN approvals,
          v \in Verdicts :
           ResolveBegin(t, u, key, v[1], v[2])
    \/ \E t \in Threads : ResolveApprovalSave(t)
    \/ \E t \in Threads : ResolveMaterialLoad(t)
    \/ \E t \in Threads : ResolveMaterialSave(t)

\* The requests about accounts and projects, and the admin site
Accounts ==
    \/ \E u \in Users : Login(u)
    \/ \E u \in Users : DeleteUser(u)

Administration ==
    \/ \E p \in ProjectIds, ids \in SUBSET Reviewers :
           ProjectUpdate("admin", p, ids)
    \/ \E mid \in MaterialIds, n \in 1..MaxVersionNumber :
           AdminAddVersion(mid, n, LogoB)

Next == Submit \/ Review \/ Accounts \/ Administration

Spec == Init /\ [][Next]_vars

NextSubmit == Submit \/ Accounts
SpecSubmit == Init /\ [][NextSubmit]_vars

NextReview == Review \/ Administration
SpecReview == InitUploaded /\ [][NextReview]_vars

\* Status changes with a notification collaborator that may fail
NextNotify ==
    \/ \E t \in Threads, u \in Users, mid \in MaterialIds,
          sc \in StatusChanges :
           UpdateStatusBegin(t, u, mid, sc[1], sc[2])
    \/ \E t \in Threads : UpdateStatusSave(t)
    \/ \E t \in Threads : UpdateStatusAudit(t)
    \/ \E t \in Threads : UpdateStatusNotify(t)
    \/ \E t \in Threads : UpdateStatusNotifyRaises(t)

SpecNotify == InitUploaded /\ [][NextNotify]_vars

\* Two materials with their versions, as the admin site recorded them:
\* Material 1 as in InitUploaded, with versions 1 (LogoB) and 2 (LogoA), and
\* Material 2, the SvgA that rev2 uploaded to ios_tvos_app_store/store_logo,
\* with version 1
InitTwoMaterials ==
    /\ users = Users
    /\ projects = [p \in ProjectIds |->
                     [created_by |-> "admin",
                      assigned_reviewers |-> Reviewers]]
    /\ materials =
         (1 :> UploadedMaterial) @@
         (2 :> [UploadedMaterial EXCEPT
                  !.id = 2, !.platform = "ios_tvos_app_store",
                  !.asset_key = "store_logo", !.file_name = SvgA.name,
                  !.file_size = SvgA.size, !.file_hash = SvgA.hash,
                  !.mime_type = "image/svg+xml", !.width = None,
                  !.height = None, !.uploaded_by = "rev2"])
    /\ versions =
         [v \in {1, 2, 3} |->
            LET f == IF v = 3 THEN LogoA ELSE LogoB IN
            [material |-> IF v = 2 THEN 2 ELSE 1,
             version_number |-> IF v = 3 THEN 2 ELSE 1,
             file_name |-> f.name, file_size |-> f.size,
             file_hash |-> f.hash, mime_type |-> "image/png",
             width |-> f.width, height |-> f.height,
             has_transparency |-> TRUE, storage_url |-> "",
             created_by |-> "admin"]]
    /\ approvals =
         [a \in {<<m, r>> : m \in {1, 2}, r \in Reviewers} |->
            NewApproval(a[1], a[2])]
    /\ audit = {[id |-> m, action |-> "upload",
                 actor |-> IF m = 1 THEN "cli1" ELSE "rev2",
                 entity_type |-> "Material", entity_id |-> m,
                 payload |-> [validation_status |-> "passed"]] :
                m \in {1, 2}}
    /\ platformSpecs = <<>>
    /\ notifications = {}
    /\ nextId = [material |-> 3, version |-> 4, audit |-> 3]
    /\ req = [t \in Threads |-> IdleWorker]
    /\ response = NoResponse
    /\ nreq = 0

SpecRollback == InitTwoMaterials /\ [][Rollbacks]_vars

\* _can_change_status over every material, project assignment and caller
InitPolicy ==
    \E ids \in SUBSET Reviewers, up \in Users, st \in MaterialStatusChoices :
        /\ users = Users
        /\ projects = [p \in ProjectIds |->
                         [created_by |-> "admin", assigned_reviewers |-> ids]]
        /\ materials = (1 :> [UploadedMaterial EXCEPT !.uploaded_by = up,
                                                      !.status = st])
        /\ versions = <<>>
        /\ approvals = <<>>
        /\ audit = {}
        /\ platformSpecs = <<>>
        /\ notifications = {}
        /\ nextId = [material |-> 2, version |-> 1, audit |-> 1]
        /\ req = [t \in Threads |-> IdleWorker]
        /\ response = NoResponse
        /\ nreq = 0

NextPolicy ==
    \E u \in Users, mid \in MaterialIds, s \in MaterialStatusChoices :
        CheckCanChangeStatus(u, mid, s)

SpecPolicy == InitPolicy /\ [][NextPolicy]_vars


-----------------------------------------------------------------------------
(* Submissions *)

\* A step that receives an upload and answers it with a rejection
UploadRejected ==
    /\ nreq' = nreq + 1
    /\ req' = req
    /\ response'.op = "upload"
    /\ response'.code = 400

\* C1: an upload that is rejected (whatever the reason) leaves the Material,
\* MaterialVersion and AuditLog rows as they were before the call
C1_RejectedUploadWritesNothing ==
    [][UploadRejected =>
          /\ materials' = materials
          /\ versions' = versions
          /\ audit' = audit]_vars

\* An upload has been rejected for its dimensions while the tables hold rows
C1_Witness ==
    /\ response.op = "upload"
    /\ response.code = 400
    /\ response.detail = "DimensionMismatch"
    /\ materials # <<>>
    /\ audit # {}

\* The MaterialVersion rows of a material
VersionsOf(mid) == {v \in DOMAIN versions : versions[v].material = mid}

\* C2: an accepted submit leaves its Material pending with a new
\* MaterialVersion; after the first accepted submit to a slot, the Material
\* has a version numbered 1
C2_AcceptedSubmitAppendsVersion ==
    (/\ response.op = "upload"
     /\ response.code = 201
     /\ response.target \in DOMAIN materials)
    => /\ materials[response.target].status = PENDING
       /\ \E v \in VersionsOf(response.target) :
             versions[v].version_number = 1

\* The Material row that holds the slot of m
SlotHolder(m) ==
    CHOOSE id \in DOMAIN materials :
        /\ materials[id].project = m.project
        /\ materials[id].platform = m.platform
        /\ materials[id].asset_key = m.asset_key

\* C3: an accepted submit to a slot that holds a Material succeeds: the row
\* of the slot takes the new file and status Pending, and no second row is
\* created
C3_ResubmitOverwrites ==
    [][\A t \in Threads :
          (/\ req[t].pc = "create"
           /\ req'[t] # req[t]
           /\ SlotTaken(req[t].material)
           /\ req[t].user \in users
           /\ req[t].project \in DOMAIN projects)
          => /\ req'[t] # IdleWorker
             /\ DOMAIN materials' = DOMAIN materials
             /\ LET id == SlotHolder(req[t].material) IN
                /\ materials'[id].file_hash = req[t].material.file_hash
                /\ materials'[id].status = PENDING]_vars

\* The accepted submits to a material: the audit rows of its uploads
AcceptedSubmits(mid) ==
    {a \in audit : /\ a.action = "upload"
                   /\ a.entity_type = "Material"
                   /\ a.entity_id = mid}

\* C4: the version numbers of a Material are exactly 1..n, n the number of
\* accepted submits to it, with no duplicate
C4_VersionNumbersContiguous ==
    \A mid \in DOMAIN materials :
        LET n == Cardinality(AcceptedSubmits(mid)) IN
        /\ {versions[v].version_number : v \in VersionsOf(mid)} = 1..n
        /\ Cardinality(VersionsOf(mid)) = n

\* The upload of worker t reaches its INSERT while the upload of worker o,
\* still in progress, has taken the same slot
LosesRace(t, o) ==
    /\ o # t
    /\ req[t].pc = "create"
    /\ req'[t] # req[t]
    /\ req[o].pc \in {"audit", "comments", "approvals"}
    /\ req[o].op = "upload"
    /\ req[o].material.id \in DOMAIN materials
    /\ req[o].material.project = req[t].material.project
    /\ req[o].material.platform = req[t].material.platform
    /\ req[o].material.asset_key = req[t].material.asset_key

\* C5: of two valid uploads racing for an empty slot, the loser is answered
\* with a conflict, which is neither a validation rejection (400) nor an
\* internal server error (500), and writes no row
C5_RaceLoserGetsConflict ==
    [][\A t, o \in Threads :
          LosesRace(t, o)
          => /\ req'[t] = IdleWorker
             /\ response'.code \notin {201, 400, 500}
             /\ materials' = materials
             /\ versions' = versions
             /\ audit' = audit]_vars

\* C6: a submit that fails after its Material was written (the audit write,
\* the comments or the Approval fan-out raises) leaves no Material behind
C6_FailedSubmitLeavesNothing ==
    [][\A t \in Threads :
          (/\ req[t].pc \in {"audit", "comments", "approvals"}
           /\ req[t].op = "upload"
           /\ req'[t] = IdleWorker
           /\ response'.code = 500)
          => req[t].material.id \notin DOMAIN materials']_vars

\* C7: an AuditLog row, once written, is never modified nor removed
C7_AuditAppendOnly == [][audit \subseteq audit']_vars

-----------------------------------------------------------------------------
(* Review *)

\* C8: a successful approve or reject leaves an AuditLog row of that action
\* by its actor
C8_VerdictIsAudited ==
    (/\ response.op \in {"approve", "reject"}
     /\ response.code = 200)
    => \E a \in audit :
          /\ a.actor = response.user
          /\ a.action = response.op
          /\ a.entity_type \in {"Approval", "Material"}

\* The reference policy of status changes: by the caller's role, whether
\* the caller is assigned to the material's project, whether the caller
\* uploaded the material, and the status asked for
PolicyAllows(role, assigned, uploader, target) ==
    CASE role = "admin" -> TRUE
      [] role = "reviewer" ->
            target \in {"approved", "needs_correction"} /\ assigned
      [] role = "client" -> target = "pending" /\ uploader
      [] OTHER -> FALSE

\* The reference policy for user u, material mid and target status s
Allowed(u, mid, s) ==
    PolicyAllows(Role(u),
                 u \in projects[materials[mid].project].assigned_reviewers,
                 materials[mid].uploaded_by = u, s)

\* The material is among those the caller may list: the caller is an admin,
\* uploaded it, or is a reviewer assigned to its project
Listed(u, mid) ==
    \/ Role(u) = "admin"
    \/ materials[mid].uploaded_by = u
    \/ /\ Role(u) = "reviewer"
       /\ u \in projects[materials[mid].project].assigned_reviewers

\* A step that receives the request of u to move material mid to status s,
\* whether the step answers it or the handler goes on
StatusChangeReceived(u, mid, s) ==
    /\ nreq' = nreq + 1
    /\ \/ /\ req' = req
          /\ response'.op = "update_status"
          /\ response'.user = u
          /\ response'.target = mid
          /\ response'.arg = s
       \/ \E t \in Threads :
             /\ req[t] = IdleWorker
             /\ req'[t] # IdleWorker
             /\ req'[t].op = "update_status"
             /\ req'[t].user = u
             /\ req'[t].material.id = mid
             /\ req'[t].new_status = s

\* C9 as stated: a status change the policy denies is answered Forbidden
\* (403) and changes no material, writes no audit row and notifies nobody
C9_DeniedIsForbidden ==
    [][\A u \in Users, mid \in DOMAIN materials, s \in MaterialStatusChoices :
          (StatusChangeReceived(u, mid, s) /\ ~Allowed(u, mid, s))
          => /\ req' = req
             /\ response'.code = 403
             /\ materials' = materials
             /\ audit' = audit
             /\ notifications' = notifications]_vars

\* C9: a status change the policy denies is answered Forbidden (403) when
\* the caller may list the material and Not Found (404) when not, and in
\* both cases changes no material, writes no audit row and notifies nobody
C9_DeniedIsRefused ==
    [][\A u \in Users, mid \in DOMAIN materials, s \in MaterialStatusChoices :
          (StatusChangeReceived(u, mid, s) /\ ~Allowed(u, mid, s))
          => /\ req' = req
             /\ response'.code = (IF Listed(u, mid) THEN 403 ELSE 404)
             /\ materials' = materials
             /\ audit' = audit
             /\ notifications' = notifications]_vars

\* A reviewer who is not assigned to the project of a material has asked to
\* approve it and was answered 404
C9_Witness ==
    /\ response.op = "update_status"
    /\ response.code = 404
    /\ response.arg = APPROVED
    /\ response.target \in DOMAIN materials
    /\ Role(response.user) = "reviewer"
    /\ response.user \notin
          projects[materials[response.target].project].assigned_reviewers

\* C10: _can_change_status returns True exactly when the reference policy
\* allows the change
C10_PolicyIsReference ==
    response.op = "can_change_status"
    => ((response.code = 200)
        <=> Allowed(response.user, response.target, response.arg))

\* An unassigned reviewer asked whether it may approve, and a client asked
\* about a material of another user: both denied
C10_Witness ==
    /\ response.op = "can_change_status"
    /\ response.code = 403
    /\ \/ /\ Role(response.user) = "reviewer"
          /\ response.arg = APPROVED
          /\ projects[1].assigned_reviewers = {"rev1"}
          /\ response.user = "rev2"
       \/ /\ Role(response.user) = "client"
          /\ response.arg = PENDING
          /\ materials[response.target].uploaded_by # response.user

\* The project of the material a request in progress is about
ProjectOfRequest(r) ==
    IF r.op \in {"approve", "reject"}
    THEN materials[r.approval.material].project
    ELSE r.material.project

\* The request in progress asks for Approved or NeedsCorrection
AsksVerdict(r) ==
    \/ r.op \in {"approve", "reject"}
    \/ r.op = "update_status"
       /\ r.new_status \in {APPROVED, NEEDS_CORRECTION}

\* C11: a request of a reviewer that moves a Material to Approved or
\* NeedsCorrection (update_status, approve, reject) is carried out only if
\* the reviewer is assigned to the material's project when it is received
C11_VerdictOnlyByAssignedReviewer ==
    [][\A t \in Threads :
          (/\ req[t] = IdleWorker
           /\ req'[t] # IdleWorker
           /\ AsksVerdict(req'[t])
           /\ is_reviewer(req'[t].user))
          => req'[t].user \in
                projects[ProjectOfRequest(req'[t])].assigned_reviewers]_vars

\* The edges of the state machine of a Material's status
StatusEdges ==
    { <<"pending", "in_review">>, <<"in_review", "approved">>,
      <<"in_review", "needs_correction">>, <<"needs_correction", "pending">>,
      <<"needs_correction", "in_review">> }

\* Worker t takes the step of update_status, approve or reject that saves
\* the Material
SavesStatus(t) ==
    /\ \/ req[t].pc = "save" /\ req[t].op = "update_status"
       \/ req[t].pc = "material_save"
    /\ req'[t] # req[t]

\* C12: every change of a Material's status made by update_status, approve
\* or reject follows an edge of the state machine
C12_StatusFollowsEdges ==
    [][\A t \in Threads, mid \in DOMAIN materials :
          (/\ SavesStatus(t)
           /\ mid \in DOMAIN materials'
           /\ materials'[mid].status # materials[mid].status)
          => <<materials[mid].status, materials'[mid].status>>
                \in StatusEdges]_vars

\* The status a verdict stands for
VerdictStatus(op) ==
    IF op = "approve" THEN "approved" ELSE "needs_correction"

\* No request is in progress
Quiet == \A t \in Threads : req[t] = IdleWorker

\* approve / reject save the Approval: the target row takes the verdict's
\* status, the other Approval rows and the Materials stay as they are
ApprovalSaved(t) ==
    (/\ req[t].pc = "approval_save"
     /\ req'[t] # req[t]
     /\ req'[t] # IdleWorker)
    => LET key == <<req[t].approval.material, req[t].approval.reviewer>> IN
       /\ approvals'[key].status = VerdictStatus(req[t].op)
       /\ \A k \in DOMAIN approvals \ {key} :
             k \in DOMAIN approvals' /\ approvals'[k] = approvals[k]
       /\ materials' = materials

\* approve / reject answer 200: the Material has the verdict's status and no
\* Approval row changes
VerdictAnswered(t) ==
    (/\ req[t].pc = "material_save"
     /\ req'[t] = IdleWorker
     /\ response'.code = 200)
    => /\ materials'[req[t].approval.material].status
             = VerdictStatus(req[t].op)
       /\ approvals' = approvals

\* C13: approve / reject set the target Approval and the Material to the
\* verdict's status and leave the other Approvals unchanged; once the calls
\* have returned, the Material has the status of the verdict answered last
C13_LastVerdictWins ==
    /\ [][\A t \in Threads : ApprovalSaved(t) /\ VerdictAnswered(t)]_vars
    /\ []((/\ Quiet
           /\ response.op \in {"approve", "reject"}
           /\ response.code = 200)
          => materials[response.target].status = VerdictStatus(response.op))

\* Two reviewers have given opposite verdicts on Material 1: rev1 approved,
\* then rev2 rejected, and the Material needs correction
C13_Witness ==
    /\ Quiet
    /\ response.op = "reject"
    /\ response.code = 200
    /\ response.user = "rev2"
    /\ <<1, "rev1">> \in DOMAIN approvals
    /\ approvals[<<1, "rev1">>].status = APPROVED
    /\ approvals[<<1, "rev2">>].status = NEEDS_CORRECTION
    /\ materials[1].status = NEEDS_CORRECTION

\* The file metadata of row a equal those of row b
SameFile(a, b) ==
    /\ a.file_name = b.file_name
    /\ a.file_size = b.file_size
    /\ a.file_hash = b.file_hash
    /\ a.mime_type = b.mime_type
    /\ a.width = b.width
    /\ a.height = b.height
    /\ a.has_transparency = b.has_transparency
    /\ a.storage_url = b.storage_url

\* rollback saves the Material: it has the file metadata of the chosen
\* version and status pending, and the MaterialVersion rows stay as they are
RollbackSaved(t) ==
    (/\ req[t].pc = "save"
     /\ req[t].op = "rollback"
     /\ req'[t] # req[t]
     /\ req'[t] # IdleWorker)
    => /\ SameFile(materials'[req[t].material.id],
                   versions[req[t].version_id])
       /\ materials'[req[t].material.id].status = "pending"
       /\ versions' = versions

\* rollback answers 200: the step changes no Material and no MaterialVersion
RollbackAnswered(t) ==
    (/\ req[t].pc = "audit"
     /\ req[t].op = "rollback"
     /\ req'[t] = IdleWorker
     /\ response'.code = 200)
    => /\ materials' = materials
       /\ versions' = versions

\* C14: a successful rollback gives the Material the file metadata of the
\* chosen version and status Pending, and neither deletes, renumbers nor
\* adds a MaterialVersion
C14_RollbackCopiesVersion ==
    [][\A t \in Threads : RollbackSaved(t) /\ RollbackAnswered(t)]_vars

\* Material 1, approved by the admin, was rolled back to version 1 (LogoB):
\* it holds LogoB and is pending again
C14_Witness ==
    /\ Quiet
    /\ response.op = "rollback"
    /\ response.code = 200
    /\ materials[1].file_hash = LogoB.hash
    /\ materials[1].status = PENDING
    /\ \E a \in audit :
          /\ "new_status" \in DOMAIN a.payload
          /\ a.payload.new_status = APPROVED

\* A step that receives the request of u to roll material mid back to the
\* version with id vid, whether the step answers it or the handler goes on
RollbackReceived(u, mid, vid) ==
    /\ nreq' = nreq + 1
    /\ \/ /\ req' = req
          /\ response'.op = "rollback"
          /\ response'.user = u
          /\ response'.target = mid
          /\ response'.arg = ToString(vid)
       \/ \E t \in Threads :
             /\ req[t] = IdleWorker
             /\ req'[t] # IdleWorker
             /\ req'[t].op = "rollback"
             /\ req'[t].user = u
             /\ req'[t].material.id = mid
             /\ req'[t].version_id = vid

\* C15: a rollback that names a version id which does not exist, or which
\* belongs to another Material, is rejected with "version not found" and
\* changes no Material, no MaterialVersion and no AuditLog row
C15_UnknownVersionRejected ==
    [][\A u \in Users, mid \in DOMAIN materials, vid \in VersionIds :
          (/\ RollbackReceived(u, mid, vid)
           /\ Listed(u, mid)
           /\ ~(vid \in DOMAIN versions /\ versions[vid].material = mid))
          => /\ req' = req
             /\ response'.code = 400
             /\ response'.detail = "version_not_found"
             /\ materials' = materials
             /\ versions' = versions
             /\ audit' = audit]_vars

\* The admin asked to roll Material 1 back to the version of Material 2 and
\* was refused
C15_Witness ==
    /\ response.op = "rollback"
    /\ response.detail = "version_not_found"
    /\ response.target = 1
    /\ response.arg = "2"
    /\ versions[2].material = 2

\* The audit row of a rollback of material mid to the version with id vid
IsRollbackRow(a, mid, vid) ==
    /\ a.entity_type = "Material"
    /\ a.entity_id = mid
    /\ "action" \in DOMAIN a.payload
    /\ a.payload.action = "rollback"
    /\ a.payload.version_id = vid

\* The second of two rollbacks in a row saves the Material: the audit row
\* written last is of a rollback to the same version, the Material is as
\* that rollback left it and no other request is in progress
SecondRollbackSaves(t, mid, vid) ==
    /\ req[t].pc = "save"
    /\ req[t].op = "rollback"
    /\ req'[t] # req[t]
    /\ \A o \in Threads \ {t} : req[o] = IdleWorker
    /\ req[t].material.id = mid
    /\ req[t].version_id = vid
    /\ \E a \in audit : a.id + 1 = nextId.audit /\ IsRollbackRow(a, mid, vid)
    /\ SameFile(materials[mid], versions[vid])
    /\ materials[mid].status = "pending"

\* A rollback of material mid to version vid writes its audit row
RollbackAudits(t, mid, vid) ==
    /\ req[t].pc = "audit"
    /\ req[t].op = "rollback"
    /\ req'[t] # req[t]
    /\ req[t].material.id = mid
    /\ req[t].version_id = vid

\* C16: the second of two rollbacks in a row to the same version leaves the
\* Material as the first left it, and every rollback adds an AuditLog row of
\* its own, with an id no other row has, tagged rollback with the version's
\* number
C16_RollbackTwice ==
    [][\A t \in Threads, mid \in DOMAIN materials, vid \in DOMAIN versions :
          /\ SecondRollbackSaves(t, mid, vid) => materials' = materials
          /\ RollbackAudits(t, mid, vid) =>
                \E a \in audit' \ audit :
                   /\ audit' = audit \cup {a}
                   /\ \A b \in audit : b.id # a.id
                   /\ IsRollbackRow(a, mid, vid)
                   /\ a.payload.version_number = versions[vid].version_number
      ]_vars

\* Material 1 was rolled back to version 1 (LogoB) twice in a row
C16_Witness ==
    /\ Quiet
    /\ response.op = "rollback"
    /\ response.code = 200
    /\ materials[1].file_hash = LogoB.hash
    /\ \E a1, a2 \in audit :
          /\ IsRollbackRow(a1, 1, 1)
          /\ IsRollbackRow(a2, 1, 1)
          /\ a1.id + 1 = a2.id
          /\ a2.id + 1 = nextId.audit

-----------------------------------------------------------------------------
(* The validator over files and specifications *)

\* The specifications dicts an administrator stores in a PlatformSpec row (a
\* JSONField): with or without the exact dimensions, any list of formats,
\* transparent_bg true, false or missing, max_size_mb 1, 10 or missing
OverrideSpecs ==
    { [width |-> d[1], height |-> d[2], formats |-> fs, transparent_bg |-> tb,
       max_size_mb |-> ms, margin_recommended_px |-> 0] :
        d \in {<<0, 0>>, <<482, 108>>},
        fs \in {{"PNG"}, {"SVG"}, {"PNG", "JPG", "SVG", "UNKNOWN"}, {}},
        tb \in {"true", "false", Absent},
        ms \in {None, 1, DefaultMaxSizeMb} }

\* The slot the PlatformSpec rows of the model override
OverrideSlot == <<"web_brand", "logo">>

\* The slots validate_image is called for: those of PLATFORM_SPECS and one
\* that no store holds
ValidateSlots == DOMAIN PLATFORM_SPECS \cup {<<"web_brand", "banner">>}

\* Byte lengths around the two size limits
FileSizes == {2048, MB, MB + 1, DefaultMaxSizeMb * MB, DefaultMaxSizeMb * MB + 1}

\* What Pillow decodes of the bytes: nothing, or a size, a mode and the
\* smallest alpha, and whether verify() passes
Decodings ==
    {[opens |-> FALSE, verifies |-> FALSE, width |-> 0, height |-> 0,
      mode |-> "", alpha_min |-> 255]}
    \cup
    { [opens |-> TRUE, verifies |-> v, width |-> w, height |-> h,
       mode |-> ma[1], alpha_min |-> ma[2]] :
        v \in BOOLEAN, w \in {482, 480, 220}, h \in {108, 100, 160},
        ma \in {<<"RGBA", 0>>, <<"RGBA", 255>>, <<"RGB", 255>>} }

\* Raster content: PNG bytes of every length, JPEG bytes, and bytes of
\* another format Pillow reads (GIF, BMP, ...), which no signature of
\* _get_mime_type matches
RasterFiles ==
    { [LogoA EXCEPT !.magic = ms[1], !.size = ms[2], !.opens = d.opens,
                    !.verifies = d.verifies, !.width = d.width,
                    !.height = d.height, !.mode = d.mode,
                    !.alpha_min = d.alpha_min] :
        ms \in ({"PNG"} \X FileSizes) \cup {<<"JPEG", 2048>>, <<"OTHER", 2048>>},
        d \in Decodings }

\* The start tags an SVG document may hold besides its root
SvgTags == {"<script", "<iframe", "<object", "<embed", "<svg:script"}

\* SVG text: its leading bytes, its root element pair, sizing hints,
\* transparency markers and the tags of its elements
SvgFiles ==
    { [SvgA EXCEPT !.magic = mg, !.size = sz, !.svg_close = cl,
                   !.svg_viewbox = hint[1], !.svg_width = hint[2],
                   !.svg_transparency_marker = tm, !.svg_tags = tags] :
        mg \in {"SVG", "XML"}, sz \in {2048, DefaultMaxSizeMb * MB + 1},
        cl \in BOOLEAN,
        hint \in {<<TRUE, FALSE>>, <<FALSE, TRUE>>, <<FALSE, FALSE>>},
        tm \in BOOLEAN,
        tags \in {{}} \cup {{x} : x \in SvgTags} \cup {SvgTags} }

\* SVG text with bytes that are not valid UTF-8
BadUtf8Files ==
    { [f EXCEPT !.utf8 = FALSE] :
        f \in {SvgA, [SvgA EXCEPT !.svg_close = FALSE],
                     [SvgA EXCEPT !.svg_tags = {"<script"}]} }

ValidateFiles == RasterFiles \cup SvgFiles \cup BadUtf8Files

\* The PlatformSpec table holds no row, or a row for OverrideSlot, and a
\* worker is about to call validate_image for a file and a slot
InitValidate ==
    /\ users = Users
    /\ projects = [p \in ProjectIds |->
                     [created_by |-> "admin",
                      assigned_reviewers |-> Reviewers]]
    /\ materials = <<>>
    /\ versions = <<>>
    /\ approvals = <<>>
    /\ audit = {}
    /\ \/ platformSpecs = <<>>
       \/ \E specs \in OverrideSpecs :
             platformSpecs =
                (OverrideSlot :> [specifications |-> specs, is_active |-> TRUE])
       \/ platformSpecs =
             (OverrideSlot :>
                [specifications |->
                    [PLATFORM_SPECS[OverrideSlot] EXCEPT !.formats = {"UNKNOWN"}],
                 is_active |-> FALSE])
    /\ notifications = {}
    /\ nextId = [material |-> 1, version |-> 1, audit |-> 1]
    /\ \E f \in ValidateFiles, slot \in ValidateSlots :
          req = [t \in Threads |->
                   IF t = "t1"
                   THEN [pc |-> "call", op |-> "validate_image", file |-> f,
                         platform |-> slot[1], asset_key |-> slot[2]]
                   ELSE IdleWorker]
    /\ response = NoResponse
    /\ nreq = 0

\* The call of ImageValidator.validate_image and what it returns or raises
CheckValidateImage(t) ==
    /\ req[t].pc = "call"
    /\ req[t].op = "validate_image"
    /\ LET f == req[t].file
           platform == req[t].platform
           asset_key == req[t].asset_key
       IN response' = [op |-> "validate_image", file |-> f,
                       platform |-> platform, asset_key |-> asset_key,
                       specs |-> GetPlatformSpecs(platform, asset_key),
                       format |-> ExtractFormatFromMime(GetMimeType(f)),
                       result |-> ValidateImage(f, platform, asset_key)]
    /\ req' = [req EXCEPT ![t] = IdleWorker]
    /\ UNCHANGED <<users, projects, materials, versions, approvals, audit,
                   platformSpecs, notifications, nextId, nreq>>

NextValidate == \E t \in Threads : CheckValidateImage(t)

SpecValidate == InitValidate /\ [][NextValidate]_vars

\* validate_image has returned for the last call
Validated == response.op = "validate_image"

-----------------------------------------------------------------------------
(* Validation *)

\* Whether the asset has transparency: a pixel below full opacity in a
\* raster image, a transparency marker in SVG text
AssetTransparent(f, format) ==
    IF format = "SVG" THEN f.svg_transparency_marker
    ELSE f.mode \in {"RGBA", "LA"} /\ f.alpha_min < 255

TransparencyReasons == {"TransparencyRequired", "TransparencyForbidden"}

\* C17: a specification that requires transparency accepts no asset without
\* it, one that forbids transparency accepts no asset with it, and one
\* without a transparent_bg entry rejects no asset for its transparency
C17_TransparencyTriState ==
    (Validated /\ ~SpecsFalsy(response.specs)) =>
        LET tb == response.specs.transparent_bg
            transparent == AssetTransparent(response.file, response.format)
            result == response.result
        IN /\ (tb = "true" /\ ~transparent) => ~result.valid
           /\ (tb = "false" /\ transparent) => ~result.valid
           /\ tb = Absent =>
                 (result.valid \/ result.reason \notin TransparencyReasons)

\* The reason of the rejection validate_image reported, "" when it accepted
Reported == IF response.result.valid THEN "" ELSE response.result.reason

Signatures == {"PNG", "JPEG", "SVG", "XML"}

\* C19: content whose leading bytes are no known signature is detected as
\* UNKNOWN and validate_image rejects it, whatever the specification
C19_UnknownAlwaysRejected ==
    (Validated /\ response.file.magic \notin Signatures) =>
        /\ response.format = "UNKNOWN"
        /\ ~response.result.valid

\* The start tags of script, iframe, object and embed elements, written
\* plainly or with a namespace prefix
ActiveContentTags == ProblematicElements \cup {"<svg:script"}

\* C20: validate_image accepts no SVG that holds a script, iframe, object or
\* embed element, whatever the specification
C20_ActiveContentNeverAccepted ==
    (/\ Validated
     /\ response.file.magic \in {"SVG", "XML"}
     /\ response.file.svg_tags \cap ActiveContentTags # {})
    => ~response.result.valid

\* The call reached the dimension check of a raster image: the slot has a
\* specification, the format is allowed and is not SVG, the file is within
\* the size limit and Pillow opens it
ReachedDimensions ==
    /\ Validated
    /\ ~SpecsFalsy(response.specs)
    /\ response.format \in response.specs.formats
    /\ response.format # "SVG"
    /\ response.file.size <=
          (IF response.specs.max_size_mb = None THEN DefaultMaxSizeMb
           ELSE response.specs.max_size_mb) * MB
    /\ response.file.opens

\* C21: an accepted raster image has the width and the height the
\* specification gives, and a raster image whose width or height differs is
\* rejected as DimensionMismatch
C21_ExactDimensions ==
    /\ (Validated /\ response.result.valid /\ response.format # "SVG") =>
          /\ response.specs.width # 0 =>
                response.result.width = response.specs.width
          /\ response.specs.height # 0 =>
                response.result.height = response.specs.height
    /\ (/\ ReachedDimensions
        /\ \/ response.specs.width # 0
              /\ response.file.width # response.specs.width
           \/ response.specs.height # 0
              /\ response.file.height # response.specs.height)
       => Reported = "DimensionMismatch"

\* A 482x108 PNG was accepted for web_brand/logo as the constants give it
C21_Witness ==
    /\ Validated
    /\ response.result.valid
    /\ response.format = "PNG"
    /\ response.specs = PLATFORM_SPECS[<<"web_brand", "logo">>]
    /\ response.result.width = 482
    /\ response.result.height = 108

-----------------------------------------------------------------------------
(* views.py: PlatformSpecViewSet, a ModelViewSet open to every authenticated *)
(* user.  get_queryset shows every row to an administrator and the active   *)
(* rows to the others, and get_object looks the row up in it.               *)

PlatformSpecVisible(u, slot) ==
    /\ slot \in DOMAIN platformSpecs
    /\ is_admin(u) \/ platformSpecs[slot].is_active

\* POST platform-specs/: the serializer's UniqueTogetherValidator refuses a
\* second row of the slot
PlatformSpecCreate(u, slot, specs, active) ==
    /\ nreq < MaxRequests
    /\ nreq' = nreq + 1
    /\ u \in users
    /\ IF slot \in DOMAIN platformSpecs
       THEN /\ platformSpecs' = platformSpecs
            /\ response' = Response("platform_spec_create", u, 0, slot[2],
                                    400, "unique")
       ELSE /\ platformSpecs' =
                 (slot :> [specifications |-> specs, is_active |-> active])
                 @@ platformSpecs
            /\ response' = Response("platform_spec_create", u, 0, slot[2],
                                    201, "ok")
    /\ UNCHANGED <<users, projects, materials, versions, approvals, audit,
                   notifications, nextId, req>>

\* PUT or PATCH platform-specs/{id}/
PlatformSpecUpdate(u, slot, specs, active) ==
    /\ nreq < MaxRequests
    /\ nreq' = nreq + 1
    /\ u \in users
    /\ IF ~PlatformSpecVisible(u, slot)
       THEN /\ platformSpecs' = platformSpecs
            /\ response' = Response("platform_spec_update", u, 0, slot[2],
                                    404, "not_found")
       ELSE /\ platformSpecs' =
                 [platformSpecs EXCEPT
                    ![slot] = [specifications |-> specs, is_active |-> active]]
            /\ response' = Response("platform_spec_update", u, 0, slot[2],
                                    200, "ok")
    /\ UNCHANGED <<users, projects, materials, versions, approvals, audit,
                   notifications, nextId, req>>

\* DELETE platform-specs/{id}/
PlatformSpecDestroy(u, slot) ==
    /\ nreq < MaxRequests
    /\ nreq' = nreq + 1
    /\ u \in users
    /\ IF ~PlatformSpecVisible(u, slot)
       THEN /\ platformSpecs' = platformSpecs
            /\ response' = Response("platform_spec_destroy", u, 0, slot[2],
                                    404, "not_found")
       ELSE /\ platformSpecs' =
                 Restrict(platformSpecs, DOMAIN platformSpecs \ {slot})
            /\ response' = Response("platform_spec_destroy", u, 0, slot[2],
                                    204, "ok")
    /\ UNCHANGED <<users, projects, materials, versions, approvals, audit,
                   notifications, nextId, req>>

\* A worker enters validate_image with a file and a slot
BeginValidateImage(t, f, slot) ==
    /\ nreq < MaxRequests
    /\ nreq' = nreq + 1
    /\ req[t] = IdleWorker
    /\ req' = [req EXCEPT ![t] =
                 [pc |-> "call", op |-> "validate_image", file |-> f,
                  platform |-> slot[1], asset_key |-> slot[2]]]
    /\ UNCHANGED <<users, projects, materials, versions, approvals, audit,
                   platformSpecs, notifications, nextId, response>>

\* The slots the PlatformSpec rows of the model are written for: one the
\* constants hold and one they do not
RegistrySlots == {OverrideSlot, <<"web_brand", "banner">>}

\* The specifications written to them: the logo's with transparency
\* forbidden, and a specification for JPG of any size
RegistrySpecs ==
    { [PLATFORM_SPECS[OverrideSlot] EXCEPT !.transparent_bg = "false"],
      [width |-> 0, height |-> 0, formats |-> {"JPG"},
       transparent_bg |-> Absent, max_size_mb |-> DefaultMaxSizeMb,
       margin_recommended_px |-> 0] }

RegistryUsers == {"admin", "cli1"}

Registry ==
    \/ \E u \in RegistryUsers, slot \in RegistrySlots, specs \in RegistrySpecs,
          active \in BOOLEAN :
           PlatformSpecCreate(u, slot, specs, active)
    \/ \E u \in RegistryUsers, slot \in RegistrySlots, specs \in RegistrySpecs,
          active \in BOOLEAN :
           PlatformSpecUpdate(u, slot, specs, active)
    \/ \E u \in RegistryUsers, slot \in RegistrySlots :
           PlatformSpecDestroy(u, slot)

NextRegistry ==
    \/ Registry
    \/ \E t \in Threads, slot \in RegistrySlots :
           BeginValidateImage(t, LogoA, slot)
    \/ \E t \in Threads : CheckValidateImage(t)

SpecRegistry == InitEmpty /\ [][NextRegistry]_vars

\* What the stores hold for the slot of the last call: the active row, else
\* the entry of the constants, else nothing
Resolved ==
    LET slot == <<response.platform, response.asset_key>> IN
    IF slot \in DOMAIN platformSpecs /\ platformSpecs[slot].is_active
    THEN platformSpecs[slot].specifications
    ELSE IF slot \in DOMAIN PLATFORM_SPECS THEN PLATFORM_SPECS[slot]
    ELSE NoSpecs

\* C22: validate_image works with the active PlatformSpec row of the slot as
\* the table holds it at the call, else with the entry of PLATFORM_SPECS, and
\* rejects with SpecNotFound when neither exists
C22_ResolutionOrder ==
    Validated =>
        /\ response.specs = Resolved
        /\ Resolved = NoSpecs => Reported = "SpecNotFound"

\* The row of web_brand/logo was deactivated and the call fell back to the
\* constants
C22_Witness ==
    /\ Validated
    /\ <<response.platform, response.asset_key>> = OverrideSlot
    /\ OverrideSlot \in DOMAIN platformSpecs
    /\ ~platformSpecs[OverrideSlot].is_active
    /\ platformSpecs[OverrideSlot].specifications # PLATFORM_SPECS[OverrideSlot]
    /\ response.specs = PLATFORM_SPECS[OverrideSlot]
    /\ response.result.valid

\* C24: no step removes a PlatformSpec row, and a step that creates or
\* changes one answers a request of an administrator
C24_SpecsKeptAndAdminOnly ==
    [][/\ \A slot \in DOMAIN platformSpecs : slot \in DOMAIN platformSpecs'
       /\ platformSpecs' # platformSpecs => is_admin(response'.user)]_vars

\* C23: when the notification of a status change fails, the Material and
\* the AuditLog stay as the change wrote them and the caller is answered
\* with success
C23_NotifierFailureContained ==
    [][\A t \in Threads :
          (/\ req[t].pc = "notify"
           /\ req'[t] = IdleWorker
           /\ notifications' = notifications)
          => /\ materials' = materials
             /\ audit' = audit
             /\ response'.code = 200]_vars

\* The Approval rows of a material
ApprovalsOf(rows, mid) == {k \in DOMAIN rows : k[1] = mid}

C26_InvalidUtf8Rejected ==
    (/\ Validated
     /\ response.file.magic \in {"SVG", "XML"}
     /\ ~response.file.utf8)
    => /\ ~response.result.valid
       /\ Reported \in {"SpecNotFound", "FormatNotAllowed", "TooLarge",
                        "InvalidEncoding"}

-----------------------------------------------------------------------------
(* models.py: Project.is_overdue; views.py: DashboardStatsView *)

DRAFT == "draft"
IN_PROGRESS == "in_progress"
COMPLETED == "completed"
CANCELLED == "cancelled"

ProjectStatusChoices == {DRAFT, IN_PROGRESS, COMPLETED, CANCELLED}

\* The instants of the model: deadlines and the readings of timezone.now()
Times == 1 .. 3

\* Project.is_overdue at the instant now
is_overdue(project, now) ==
    IF project.deadline = None THEN FALSE ELSE now > project.deadline

\* The projects DashboardStatsView counts for the caller
DashboardProjects(u) ==
    IF is_admin(u) THEN DOMAIN projects
    ELSE IF is_reviewer(u)
         THEN {p \in DOMAIN projects : u \in projects[p].assigned_reviewers}
    ELSE {p \in DOMAIN projects : projects[p].created_by = u}

\* overdue_projects of DashboardStatsView.get at the instant now
OverdueProjects(u, now) ==
    Cardinality({p \in DashboardProjects(u) :
                    /\ projects[p].deadline # None
                    /\ projects[p].deadline < now
                    /\ projects[p].status \in {DRAFT, IN_PROGRESS}})

\* Two projects, of any status and with any deadline or none: one of the
\* administrator with both reviewers, one of cli1 with rev1
InitOverdue ==
    /\ users = Users
    /\ \E st \in [{1, 2} -> ProjectStatusChoices],
          dl \in [{1, 2} -> {None} \cup Times] :
          projects = [p \in {1, 2} |->
                        [created_by |-> IF p = 1 THEN "admin" ELSE "cli1",
                         assigned_reviewers |->
                            IF p = 1 THEN Reviewers ELSE {"rev1"},
                         status |-> st[p], deadline |-> dl[p]]]
    /\ materials = <<>>
    /\ versions = <<>>
    /\ approvals = <<>>
    /\ audit = {}
    /\ platformSpecs = <<>>
    /\ notifications = {}
    /\ nextId = [material |-> 1, version |-> 1, audit |-> 1]
    /\ req = [t \in Threads |-> IdleWorker]
    /\ response = NoResponse
    /\ nreq = 0

\* The caller's projects with their is_overdue flag, as ProjectSerializer
\* shows it, and the overdue_projects count of the dashboard, both read at
\* the instant now
CheckOverdue(u, now) ==
    /\ u \in users
    /\ response' = [op |-> "overdue", user |-> u, now |-> now,
                    is_overdue |-> [p \in DashboardProjects(u) |->
                                      is_overdue(projects[p], now)],
                    overdue_projects |-> OverdueProjects(u, now)]
    /\ UNCHANGED <<users, projects, materials, versions, approvals, audit,
                   platformSpecs, notifications, nextId, req, nreq>>

NextOverdue == \E u \in Users, now \in Times : CheckOverdue(u, now)

SpecOverdue == InitOverdue /\ [][NextOverdue]_vars

\* C27: a project is flagged overdue exactly when it has a deadline in the
\* past and is a draft or in progress, and the dashboard counts the flagged
\* projects
C27_OverdueFlagAndCount ==
    response.op = "overdue" =>
        /\ \A p \in DOMAIN response.is_overdue :
              response.is_overdue[p] <=>
                 /\ projects[p].deadline # None
                 /\ projects[p].deadline < response.now
                 /\ projects[p].status \in {"draft", "in_progress"}
        /\ response.overdue_projects =
              Cardinality({p \in DOMAIN response.is_overdue :
                              response.is_overdue[p]})

\* C28: the save of the Material by approve / reject changes its status
\* only: the other columns stay as the row holds them, whoever wrote them
\* since the request loaded the Material
C28_VerdictChangesStatusOnly ==
    [][\A t \in Threads :
          (/\ req[t].pc = "material_save"
           /\ req'[t] = IdleWorker
           /\ response'.code = 200)
          => LET mid == req[t].approval.material IN
             /\ mid \in DOMAIN materials
             /\ materials' =
                   [materials EXCEPT
                      ![mid] = [materials[mid] EXCEPT
                                  !.status = VerdictStatus(req[t].op)]]]_vars

\* C29: a rollback saves the Material only for an administrator or for the
\* client who uploaded it
C29_RollbackFollowsPolicy ==
    [][\A t \in Threads :
          (/\ req[t].pc = "save"
           /\ req[t].op = "rollback"
           /\ materials' # materials)
          => LET u == req[t].user IN
             \/ Role(u) = "admin"
             \/ /\ Role(u) = "client"
                /\ req[t].material.uploaded_by = u]_vars

\* C30: an Approval has its approved_at set exactly when its status is
\* approved, and its status is pending, approved or needs_correction
C30_ApprovedAtIffApproved ==
    \A k \in DOMAIN approvals :
        /\ approvals[k].approved_at <=> approvals[k].status = "approved"
        /\ approvals[k].status \in {"pending", "approved", "needs_correction"}

====
